---- MODULE Spec2Model ----
(***************************************************************************)
(* A model of the shell-command engine of j-o-r/sh: the SH tag function    *)
(* (src/src/sh.js, lines 1-263) and the ProcessPromise class               *)
(* (src/src/sh.js, lines 265-586).                                         *)
(*                                                                         *)
(* A Task is one ProcessPromise.  Its private fields, the closure          *)
(* variables of run() and the state of its child process are the fields of *)
(* one record per Task; `task` maps every Task to its record.  Every       *)
(* method is an operator from the Task map to the Task map it leaves       *)
(* behind plus the error it throws; an action applies one call, or         *)
(* delivers one event of the Node.js event loop.                           *)
(***************************************************************************)
EXTENDS Integers, Sequences, FiniteSets, TLC

\* ---------------------------------------------------------------- bounds
MaxChunks == 1     \* chunks one process emits on each of stdout and stderr
MaxKills == 1      \* explicit kill() calls on one Task
MaxChildren == 1   \* descendants the process-tree lookup reports
MaxAwait == 1      \* continuations registered on a pending Task

\* The Tasks the client program creates, in this order; Solo is the Task of
\* the specifications that follow one Task alone.
Tasks == {1, 2}
Solo == {1}

\* JavaScript's null / undefined.
NULL == "null"

\* Signal names kill() and timeout() are called with.
Signals == {"SIGTERM", "SIGKILL"}

\* Exit codes of a process that ends by itself (written as text, so that a
\* code compares with null).
ExitCodes == {"0", "1"}

\* The code Node.js reports with 'close' after a failed spawn (a negated
\* errno, ENOENT).
SpawnErrno == "-2"

\* Durations timeout() is called with, as parseDuration returns them (ms).
Durations == {0, 50}

\* The process id of a Task's root process, and of its n-th descendant.
RootPid == <<"root", 0>>
ChildPid(n) == <<"child", n>>

\* The largest count retry() is called with.
MaxCount == 3

\* Exit codes of a failed invocation of retry's callback (the Output it throws).
Failures == {"1", "6"}

\* The delay specifications retry() is called with: none (the two-argument
\* form), a static duration in ms, or a generator made by expBackoff().
DelaySpecs == {"function", "duration", "generator"}

\* The parameters of expBackoff() after parseDuration (ms), kept small.
MaxMs == 4
RandMs == 2

\* The most writes the client makes to the context store and to the process.
MaxWrites == 2

\* The scopes within() creates; context 0 is no scope (getStore() is defaults).
Scopes == {1, 2}
Contexts == {0} \cup Scopes

\* Directories process.cwd() can name.
Dirs == {"/home", "/tmp"}

\* The objects a store's env can refer to: the {} of sh.js 39, process.env,
\* and an object the client assigns.
EnvRefs == {"initial", "process", "user"}

\* The values of one entry (FOO) of an environment object; "" is unset.
EnvValues == {"", "x"}

\* The configuration keys the client assigns through the Proxy, each with a
\* value that differs from the default.
Assignable == {<<"processCwd", "/tmp">>, <<"verbose", TRUE>>, <<"env", "user">>,
               <<"shell", "/bin/sh">>, <<"prefix", "">>}

\* const defaults (sh.js 36-48), on a POSIX platform.
defaults == [processCwd |-> "", verbose |-> FALSE, env |-> "initial",
             shell |-> "/bin/bash", prefix |-> "set -euo pipefail;"]

\* The most values taken from one generator.
MaxYield == 3

\* Math.random() returns one of the fractions 0/Grain .. (Grain - 1)/Grain.
Grain == 4

\* The generators expBackoff() makes.
Generators == {1, 2}

VARIABLES
  task,      \* Task -> its record (see NewTask)
  last,      \* the most recent step: <<operation, Task, argument, error thrown or "none">>
  retrying,  \* the one call of retry() (see NewRetry)
  ctx,       \* the context store and the process state it reads (see NewCtx)
  backoff    \* generator -> its record (see NewGenerator)

vars == <<task, last, retrying, ctx, backoff>>

\* A generator of expBackoff (sh.js 240-248) before it is made.
NewGenerator == [
  made    |-> FALSE,   \* expBackoff() has returned it
  maxMs   |-> 0,       \* maxMs
  randMs  |-> 0,       \* randMs
  n       |-> 1,       \* n
  yielded |-> <<>>     \* the values it has yielded, in order
]

\* The context store when the module is loaded (sh.js 34-48).
NewCtx == [
  store  |-> [c \in Contexts |-> defaults],   \* defaults (0) and the store of each scope
  scope  |-> [c \in Scopes |-> "unused"],     \* the callback of within(): unused, running, done
  cwd    |-> "/home",                         \* process.cwd()
  heap   |-> [r \in EnvRefs |-> ""],          \* the entry FOO of each environment object
  writes |-> 0,                               \* writes the client has made
  ambient |-> {}                              \* the <<key, value>> last assigned outside any scope
]

\* A ProcessPromise before SH has built it (sh.js 311-325 give the defaults).
NewTask == [
  created     |-> FALSE,     \* SH has returned this Task
  immediate   |-> "none",    \* the setImmediate of sh.js 105: none, scheduled, fired
  canSpawn    |-> TRUE,      \* environment: the OS can create the process
  halted      |-> FALSE,     \* #halted
  nothrow     |-> FALSE,     \* #nothrow
  resolved    |-> FALSE,     \* #resolved
  piped       |-> FALSE,     \* #piped
  pipes       |-> {},        \* the Tasks pipe() has been called with and has returned
  stdio       |-> <<"inherit", "pipe", "pipe">>,   \* #stdio
  prerun      |-> 0,         \* #prerun: 0 is noop, a is a.run.bind(a)
  postrun     |-> 0,         \* #postrun: 0 is noop, a connects a.stdout to this stdin
  timeout     |-> 0,         \* _timeout: 0 while undefined
  timeoutSignal |-> NULL,    \* _timeoutSignal
  child       |-> "none",    \* this.child: none, failed, errored, running, exited, closed
  spawnStdio  |-> <<"inherit", "pipe", "pipe">>,   \* the stdio the child was spawned with
  status      |-> [code |-> NULL, signal |-> NULL],   \* how the process ended
  termBy      |-> "none",    \* whose kill() terminated the process: none, user, timer
  spawns      |-> 0,         \* calls of the spawn primitive for this Task
  settled     |-> "pending", \* the promise: pending, resolved, rejected
  output      |-> NULL,      \* the ProcessOutput it settled with
  waiters     |-> 0,         \* continuations registered by then/catch/finally
  delivered   |-> {},        \* what continuations were called with
  stdout      |-> <<>>,      \* run()'s closure variable stdout
  stderr      |-> <<>>,      \* run()'s closure variable stderr
  combined    |-> <<>>,      \* run()'s closure variable combined
  listening   |-> FALSE,     \* onStdout is attached to child.stdout
  dests       |-> {},        \* Tasks whose stdin child.stdout is piped to
  held        |-> <<>>,      \* chunks child.stdout holds while nothing consumes it
  nOut        |-> 0,         \* chunks the process has written to stdout
  nErr        |-> 0,         \* chunks the process has written to stderr
  arrived     |-> <<>>,      \* the chunks of both streams, in the order they arrived
  stdinRecv   |-> <<>>,      \* chunks written to child.stdin
  stdinEnded  |-> FALSE,     \* child.stdin.end() was called
  timer       |-> "none",    \* the timer of sh.js 413: none, armed, fired, cleared
  onSettle    |-> FALSE,     \* the finally() reaction of sh.js 414 is registered
  elapsed     |-> FALSE,     \* the configured duration has passed since the start
  kills       |-> <<>>,      \* kill() calls waiting for the process-tree lookup
  asked       |-> <<>>,      \* the signal and the caller of every kill() that passed its checks
  sent        |-> <<>>,      \* the process.kill calls of the last kill() that completed
  killValue   |-> [defined |-> FALSE, pids |-> <<>>],
                             \* what the last kill() that completed was fulfilled with
  events      |-> <<>>,      \* the process events its handlers have observed
  snapshot    |-> defaults,  \* #snapshot (meaningful once created)
  command     |-> <<>>,      \* #command, a text (see Fragments)
  quiet       |-> FALSE,     \* #quiet
  _quiet      |-> "undefined",   \* the property _quiet: undefined or false
  lastCall    |-> "none",    \* the last of quiet() and verbose() called: none, quiet, verbose
  logged      |-> <<>>,      \* the log events of run(): <<kind, verbose>>
  bound       |-> [processCwd |-> "", verbose |-> FALSE, env |-> "", shell |-> "", prefix |-> ""]
                             \* the values of the active context when _bind was called
]

\* What a call leaves behind: the Task map and the error it raised.
Ok(T) == [T |-> T, err |-> "none"]
Err(T, e) == [T |-> T, err |-> e]

\* this.child is set (sh.js 353, 460, 501).
hasChild(T, t) == T[t].child # "none"

\* this.child.pid is defined: the process was created (sh.js 503).
hasPid(T, t) == T[t].child \in {"running", "exited", "closed"}

\* ------------------------------------------------------- ProcessPromise

\* stdio(stdin, stdout = 'pipe', stderr = 'pipe') (sh.js 517-520).
stdio(T, t, in, out, err) == [T EXCEPT ![t].stdio = <<in, out, err>>]

\* log({ kind, ..., verbose: ENV.verbose && !this.#quiet }) (sh.js 355-359,
\* 398, 404).
log(T, t, kind) ==
  [T EXCEPT ![t].logged = Append(@, <<kind, T[t].snapshot.verbose /\ ~T[t].quiet>>)]

\* spawn(...) and the assignment to this.child (sh.js 361-368): the handle
\* has a pid when the process was created, and reports 'error' otherwise.
spawn(T, t) ==
  [T EXCEPT ![t].child = IF T[t].canSpawn THEN "running" ELSE "failed",
            ![t].spawnStdio = T[t].stdio,
            ![t].spawns = @ + 1]

\* The stdout listener of sh.js 408-409: attached unless #piped, and only
\* when the child has a stdout stream.
attachStdout(T, t) ==
  [T EXCEPT ![t].listening = ~T[t].piped /\ T[t].spawnStdio[2] = "pipe"]

\* A timer that nothing clears.
armTimeoutOnly(T, t) ==
  IF T[t].timeout # 0 /\ T[t].timeoutSignal # NULL
    THEN [T EXCEPT ![t].timer = "armed"]
    ELSE T

\* The timer of sh.js 412-415, with the finally() reaction that clears it.
armTimeout(T, t) ==
  IF T[t].timeout # 0 /\ T[t].timeoutSignal # NULL
    THEN [T EXCEPT ![t].timer = "armed", ![t].onSettle = TRUE]
    ELSE T

RECURSIVE run(_, _)

\* A stdout accessor that does not run the Task.
getStdoutOnly(T, t) ==
  IF T[t].spawnStdio[2] # "pipe" THEN Err(T, "stdoutNull") ELSE Ok(T)

\* get stdout (sh.js 434-440).
getStdout(T, t) ==
  LET r == run(T, t)
  IN IF r.err # "none" THEN r
     ELSE IF r.T[t].spawnStdio[2] # "pipe" THEN Err(r.T, "stdoutNull")
     ELSE r

\* get stderr (sh.js 445-451).
getStderr(T, t) ==
  LET r == run(T, t)
  IN IF r.err # "none" THEN r
     ELSE IF r.T[t].spawnStdio[3] # "pipe" THEN Err(r.T, "stderrNull")
     ELSE r

\* get stdin (sh.js 422-429): sets #stdio before it runs the Task.
getStdin(T, t) ==
  LET r == run(stdio(T, t, "pipe", "pipe", "pipe"), t)
  IN IF r.err # "none" THEN r
     ELSE IF r.T[t].spawnStdio[1] # "pipe" THEN Err(r.T, "stdinNull")
     ELSE r

\* source.stdout.pipe(dest.stdin): dest becomes a consumer of the stream and
\* gets what the stream held while nothing consumed it.
streamPipe(T, src, dest) ==
  LET T1 == [T EXCEPT ![src].dests = @ \cup {dest}]
  IN IF T[src].held = <<>> THEN T1
     ELSE [T1 EXCEPT ![dest].stdinRecv = @ \o T[src].held, ![src].held = <<>>]

\* The post-start hook pipe() gives its destination (sh.js 485-489).
connect(T, src, dest) ==
  IF ~hasChild(T, dest) THEN Err(T, "noSubprocess")
  ELSE LET a == getStdout(T, src)
       IN IF a.err # "none" THEN a
          ELSE LET b == getStdin(a.T, dest)
               IN IF b.err # "none" THEN b
                  ELSE Ok(streamPipe(b.T, src, dest))

\* this.#postrun() (sh.js 411).
postrun(T, t) == IF T[t].postrun = 0 THEN Ok(T) ELSE connect(T, T[t].postrun, t)

\* A run() that returns early only while the process is alive.
alreadyStartedAlive(T, t) == T[t].child = "running"

\* The early return of run() (sh.js 353).
alreadyStarted(T, t) == hasChild(T, t)

\* The chain of pre-start hooks from t never reaches a Task that has a child
\* or no hook: run() recurses until the stack overflows, before any of the
\* calls has changed anything (sh.js 353-354).
RECURSIVE overflows(_, _, _)
overflows(T, t, seen) ==
  IF alreadyStarted(T, t) THEN FALSE
  ELSE IF t \in seen THEN TRUE
  ELSE IF T[t].prerun = 0 THEN FALSE
  ELSE overflows(T, T[t].prerun, seen \cup {t})

\* run() (sh.js 351-417).
run(T, t) ==
  IF alreadyStarted(T, t) THEN Ok(T)
  ELSE IF overflows(T, t, {}) THEN Err(T, "RangeError")
  ELSE LET pre == IF T[t].prerun = 0 THEN Ok(T) ELSE run(T, T[t].prerun)
       IN IF pre.err # "none" THEN pre
          ELSE LET post == postrun(attachStdout(spawn(log(pre.T, t, "cmd"), t), t), t)
               IN IF post.err # "none" THEN post
                  ELSE Ok(armTimeout(post.T, t))

\* pipe(dest) (sh.js 473-496); dest is a Task or a string.
pipe(T, t, dest) ==
  IF dest \notin Tasks THEN Err(T, "pipeString")
  ELSE IF T[t].resolved
    THEN LET r == getStdin(T, dest)
         IN IF r.err # "none" THEN r
            ELSE Err([r.T EXCEPT ![dest].stdinEnded = TRUE], "pipeResolved")
  ELSE LET T1 == stdio([T EXCEPT ![t].piped = TRUE, ![t].pipes = @ \cup {dest}],
                      dest, "pipe", "pipe", "pipe")
       IN Ok([T1 EXCEPT ![dest].prerun = t, ![dest].postrun = t])

\* quiet() (sh.js 532-535) and verbose() (539-542): verbose() assigns the
\* property _quiet, not the field #quiet.
quiet(T, t) == [T EXCEPT ![t].quiet = TRUE, ![t].lastCall = "quiet"]
verbose(T, t) == [T EXCEPT ![t]._quiet = "false", ![t].lastCall = "verbose"]

\* halt() (sh.js 557-560), nothrow() (524-527), timeout(d, signal) (549-553).
halt(T, t) == [T EXCEPT ![t].halted = TRUE]
nothrow(T, t) == [T EXCEPT ![t].nothrow = TRUE]
timeout(T, t, d, sig) == [T EXCEPT ![t].timeout = d, ![t].timeoutSignal = sig]

\* The reactions of a settled promise, run before the next event: the
\* finally() of sh.js 414 clears the timer, the continuations get the Output.
react(T, t) ==
  LET o == [how |-> T[t].settled, output |-> T[t].output]
  IN [T EXCEPT ![t].timer = IF T[t].onSettle /\ @ = "armed" THEN "cleared" ELSE @,
               ![t].delivered = IF T[t].waiters > 0 THEN @ \cup {o} ELSE @,
               ![t].waiters = 0]

\* A promise that every call of #resolve or #reject settles anew.
settleAgain(T, t, how, out) ==
  react([T EXCEPT ![t].settled = how, ![t].output = out], t)

\* #resolve(output) / #reject(output): a promise settles once.
settle(T, t, how, out) ==
  IF T[t].settled # "pending" THEN T
  ELSE react([T EXCEPT ![t].settled = how, ![t].output = out], t)

\* new ProcessOutput(code, signal, stdout, stderr, combined, message)
\* (part_000 49-57).
ProcessOutput(T, t, code, signal) ==
  [exitCode |-> code, signal |-> signal, stdout |-> T[t].stdout,
   stderr |-> T[t].stderr, combined |-> T[t].combined]

\* A close handler that resolves on exit code 0 only.
resolvesOnZero(code, nothrowFlag) == code = "0"

\* The condition of sh.js 379.
resolves(code, nothrowFlag) == code = "0" \/ nothrowFlag

\* The 'close' handler (sh.js 369-386).
onClose(T, t, code, signal) ==
  LET out == ProcessOutput(T, t, code, signal)
      T1 == settle(T, t, IF resolves(code, T[t].nothrow) THEN "resolved" ELSE "rejected", out)
  IN [T1 EXCEPT ![t].resolved = TRUE]

\* An error handler that honours nothrow as the close handler does.
onErrorNothrow(T, t) ==
  LET T1 == settle(T, t, IF T[t].nothrow THEN "resolved" ELSE "rejected",
                   ProcessOutput(T, t, NULL, NULL))
  IN [T1 EXCEPT ![t].resolved = TRUE]

\* The 'error' handler (sh.js 387-394).
onError(T, t) ==
  LET T1 == settle(T, t, "rejected", ProcessOutput(T, t, NULL, NULL))
  IN [T1 EXCEPT ![t].resolved = TRUE]

\* An onStderr that leaves the combined buffer alone.
onStderrOwn(T, t, data) ==
  log([T EXCEPT ![t].stderr = @ \o <<data>>], t, "stderr")

\* onStdout (sh.js 397-401) and onStderr (403-407).
onStdout(T, t, data) ==
  log([T EXCEPT ![t].stdout = @ \o <<data>>, ![t].combined = @ \o <<data>>], t, "stdout")
onStderr(T, t, data) ==
  log([T EXCEPT ![t].stderr = @ \o <<data>>, ![t].combined = @ \o <<data>>], t, "stderr")

\* A then() that refuses every halted Task, started or not.
thenHalted(T, t) ==
  IF T[t].halted THEN Err(T, "halted")
  ELSE IF T[t].settled = "pending"
    THEN Ok([T EXCEPT ![t].waiters = @ + 1])
  ELSE Ok([T EXCEPT ![t].delivered =
             @ \cup {[how |-> T[t].settled, output |-> T[t].output]}])

\* then(onfulfilled, onrejected) (sh.js 459-464); catch (465-467) and
\* finally reach it through Promise.prototype.
then(T, t) ==
  IF T[t].halted /\ ~hasChild(T, t) THEN Err(T, "halted")
  ELSE IF T[t].settled = "pending"
    THEN Ok([T EXCEPT ![t].waiters = @ + 1])
  ELSE Ok([T EXCEPT ![t].delivered =
             @ \cup {[how |-> T[t].settled, output |-> T[t].output]}])


\* kill(signal) up to its await (sh.js 500-505): the checks, then the
\* process-tree lookup is under way.
kill(T, t, sig, by) ==
  IF ~hasChild(T, t) THEN Err(T, "killNoChild")
  ELSE IF ~hasPid(T, t) THEN Err(T, "killNoPid")
  ELSE Ok([T EXCEPT ![t].kills = Append(@, [signal |-> sig, by |-> by]),
                    ![t].asked = Append(@, [signal |-> sig, by |-> by])])

\* The loop of sh.js 506-511: one process.kill per descendant, each in its
\* own try/catch; a descendant in `gone` has exited and its send fails.
RECURSIVE sendAll(_, _, _)
sendAll(children, sig, gone) ==
  IF children = <<>> THEN <<>>
  ELSE <<[pid |-> Head(children), signal |-> sig, ok |-> Head(children) \notin gone]>>
         \o sendAll(Tail(children), sig, gone)

\* The sends of a loop up to its first failure.
RECURSIVE sendAllUntilFailure(_, _, _)
sendAllUntilFailure(children, sig, gone) ==
  IF children = <<>> THEN <<>>
  ELSE IF Head(children) \in gone
    THEN <<[pid |-> Head(children), signal |-> sig, ok |-> FALSE]>>
  ELSE <<[pid |-> Head(children), signal |-> sig, ok |-> TRUE]>>
         \o sendAllUntilFailure(Tail(children), sig, gone)

\* One try/catch around the loop and the send to the root: the first failed
\* send ends the kill.
killSendsOneTry(T, t, sig, children, gone) ==
  LET tried == sendAllUntilFailure(children, sig, gone)
  IN IF \E i \in 1..Len(tried) : ~tried[i].ok THEN tried
     ELSE tried \o <<[pid |-> RootPid, signal |-> sig, ok |-> T[t].child = "running"]>>

\* Sends that leave the signal to process.kill's default.
killSendsDefault(T, t, sig, children, gone) ==
  sendAll(children, "SIGTERM", gone)
    \o <<[pid |-> RootPid, signal |-> "SIGTERM", ok |-> T[t].child = "running"]>>

\* The sends of one kill() (sh.js 506-515): the descendants, then the root.
killSends(T, t, sig, children, gone) ==
  sendAll(children, sig, gone)
    \o <<[pid |-> RootPid, signal |-> sig, ok |-> T[t].child = "running"]>>

\* The process of Task t ends: Node.js drains what its stdout still holds
\* for a consumer that never came.
exit(T, t, code, sig, by) ==
  [T EXCEPT ![t].child = "exited",
            ![t].status = [code |-> code, signal |-> sig],
            ![t].termBy = by,
            ![t].held = <<>>]

\* process.kill(pid, signal) reaching a process: a running process ends
\* with that signal; one that has ended is not there to signal.
signal(T, t, sends, by) ==
  LET hit == {i \in 1..Len(sends) : sends[i].pid = RootPid /\ sends[i].ok}
  IN IF hit = {} THEN T
     ELSE LET i == CHOOSE j \in hit : \A k \in hit : j <= k
          IN exit(T, t, NULL, sends[i].signal, by)

\* kill(signal) after its await (sh.js 505-516): the lookup has answered
\* `children` for the i-th waiting call. The function ends without a return
\* statement: its promise is fulfilled with undefined.
killResume(T, t, i, children, gone) ==
  LET k == T[t].kills[i]
      sends == killSends(T, t, k.signal, children, gone)
      T1 == signal(T, t, sends, k.by)
  IN [T1 EXCEPT ![t].sent = sends,
                ![t].killValue = [defined |-> FALSE, pids |-> <<>>],
                ![t].kills = SubSeq(@, 1, i - 1) \o SubSeq(@, i + 1, Len(@))]

\* A timer callback that calls kill() without the signal.
onTimeoutDefault(T, t) == kill([T EXCEPT ![t].timer = "fired"], t, "SIGTERM", "timer")

\* The callback of the timer of sh.js 413: kill(this._timeoutSignal).
onTimeout(T, t) == kill([T EXCEPT ![t].timer = "fired"], t, T[t].timeoutSignal, "timer")

\* ---------------------------------------------------------------- steps

\* The value of a variable that has never been assigned (let lastErr, sh.js
\* 184), written in the shape of the values an invocation produces.
Undefined == [attempt |-> 0, exitCode |-> "undefined"]

\* The locals of one call of retry() (sh.js 163-185) and what it has done.
NewRetry == [
  pc          |-> "idle",      \* idle, calling, sleeping, returned, rejected
  count       |-> 0,           \* count
  total       |-> 0,           \* total
  delayStatic |-> 0,           \* delayStatic
  delayGen    |-> FALSE,       \* delayGen is set
  n           |-> 1,           \* the n of the generator delayGen
  lastErr     |-> Undefined,   \* lastErr
  attempt     |-> 0,           \* attempt
  delay       |-> 0,           \* delay of the current catch block
  running     |-> 0,           \* invocations of callback that have not settled
  outcomes    |-> <<>>,        \* what each invocation returned or threw, in order
  slept       |-> <<>>,        \* the delays sleep() was called with, in order
  yielded     |-> <<>>,        \* the values delayGen.next() returned, in order
  events      |-> 0,           \* log events of kind retry
  result      |-> Undefined    \* what retry() returned or threw
]

Init ==
  /\ task = [t \in Tasks |-> NewTask]
  /\ last = <<"init", 0, 0, "none">>
  /\ retrying = NewRetry
  /\ ctx = NewCtx
  /\ backoff = [g \in Generators |-> NewGenerator]

\* A step that applies the result r of one call op of Task t with argument arg.
Call(r, op, t, arg) ==
  /\ task' = r.T
  /\ last' = <<op, t, arg, r.err>>
  /\ UNCHANGED <<retrying, ctx, backoff>>

Apply(r, op, t) == Call(r, op, t, 0)

\* No process.nextTick callback is waiting: the 'error' of a failed spawn is
\* reported before the event loop delivers anything else.
Idle == \A u \in Tasks : task[u].child # "failed"

\* ------------------------------------------------------ command building
\* The most values a template interpolates.
MaxArgs == 1

\* A text is a sequence of characters. The literal fragments of a template:
\* undefined (an invalid escape sequence) or a text.
Undef == [defined |-> FALSE, text |-> <<"u", "n", "d", "e", "f", "i", "n", "e", "d">>]
Fragment(x) == [defined |-> TRUE, text |-> x]
Fragments == {Undef, Fragment(<<>>), Fragment(<<"e", " ">>)}

\* The values a template interpolates: a string, an array of strings, or a
\* ProcessOutput with its stdout and combined texts.
Scalar(x) == [kind |-> "scalar", text |-> x, items |-> <<>>, stdout |-> <<>>, combined |-> <<>>]
Array(xs) == [kind |-> "array", text |-> <<>>, items |-> xs, stdout |-> <<>>, combined |-> <<>>]
OutputArg(out, comb) ==
  [kind |-> "output", text |-> <<>>, items |-> <<>>, stdout |-> out, combined |-> comb]
ArgValues ==
  {Scalar(<<"a">>), Scalar(<<"a", " ", "b">>),
   Array(<<>>), Array(<< <<"a">>, <<"a", " ", "b">> >>),
   OutputArg(<<"a", "\n">>, <<"a", "\n">>),
   OutputArg(<<"a", "\n", "\n">>, <<"a", "\n", "\n">>),
   OutputArg(<<"a", "\n">>, <<"x", "\n", "a", "\n">>)}

\* The templates SH is called with: n + 1 fragments around n values.
Templates ==
  UNION {[1 .. n + 1 -> Fragments] \X [1 .. n -> ArgValues] : n \in 0 .. MaxArgs}

\* String.prototype.trim(): white space is removed from both ends.
RECURSIVE trimStart(_)
trimStart(x) ==
  IF x # <<>> /\ x[1] \in {" ", "\n"} THEN trimStart(Tail(x)) ELSE x
RECURSIVE trimEnd(_)
trimEnd(x) ==
  IF x # <<>> /\ x[Len(x)] \in {" ", "\n"} THEN trimEnd(SubSeq(x, 1, Len(x) - 1)) ELSE x
trim(x) == trimEnd(trimStart(x))

\* `${arg}`: a ProcessOutput is converted by its toString(), which returns
\* this.#combined.trim() (part_000 80-82).
toString(v) == IF v.kind = "output" THEN trim(v.combined) ELSE v.text

\* quote (utils.js, not in the repository's files): a text of safe
\* characters is returned as it is, any other text is wrapped in $'...' with
\* its special characters escaped.
RECURSIVE escaped(_)
escaped(x) ==
  IF x = <<>> THEN <<>>
  ELSE (IF x[1] = "\n" THEN <<"\\", "n">> ELSE <<x[1]>>) \o escaped(Tail(x))
quote(x) ==
  IF \A i \in 1 .. Len(x) : x[i] \notin {" ", "\n"} THEN x
  ELSE <<"$", "'">> \o escaped(x) \o <<"'">>

\* sanitizeArg (sh.js 53-59) on a POSIX platform.
sanitizeArg(v) == quote(toString(v))

\* xs.join(' ').
RECURSIVE join(_)
join(xs) ==
  IF xs = <<>> THEN <<>>
  ELSE IF Len(xs) = 1 THEN xs[1]
  ELSE xs[1] \o <<" ">> \o join(Tail(xs))

\* The text s of one value (sh.js 88-94).
interpolated(v) ==
  IF v.kind = "array"
    THEN join([i \in 1 .. Len(v.items) |-> sanitizeArg(Scalar(v.items[i]))])
    ELSE sanitizeArg(v)

\* cmd after the loop of sh.js 86-96 has reached value i.
RECURSIVE assembled(_, _, _)
assembled(pieces, args, i) ==
  IF i = 0 THEN pieces[1].text
  ELSE assembled(pieces, args, i - 1) \o interpolated(args[i]) \o pieces[i + 1].text

\* A check that looks at the first fragment only.
malformedFirst(pieces) == ~pieces[1].defined

\* pieces.some((p) => p == undefined) (sh.js 83).
malformed(pieces) == \E i \in 1 .. Len(pieces) : ~pieces[i].defined

\* getStore() (sh.js 61-63) of code running in context c.
getStore(C, c) == C.store[c]

\* Code of context c can run: the top level, or a scope whose callback has
\* not completed.
Active(c) == IF c = 0 THEN TRUE ELSE ctx.scope[c] = "running"

\* The values a store denotes, its environment read through the reference.
Values(C, st) == [st EXCEPT !.env = C.heap[st.env]]

\* defaults.processCwd = process.cwd(); defaults.env = process.env (sh.js
\* 101-102), whatever context SH is called in.
storeWrite(C, c) ==
  [C EXCEPT !.store[0].processCwd = C.cwd, !.store[0].env = "process"]

\* SH called in context c with the fragments pieces and the values args
\* (sh.js 81-107): an undefined fragment raises the error before anything is
\* built; otherwise the store is written, the Task is bound to the command
\* and to a shallow copy of getStore() (sh.js 346), and its start is
\* scheduled.
SHOf(c, t, ok, pieces, args) ==
  /\ Active(c)
  /\ ~task[t].created
  /\ \A u \in Tasks : u < t => task[u].created
  /\ IF malformed(pieces)
       THEN /\ last' = <<"SH", t, c, "malformed">>
            /\ UNCHANGED <<task, ctx>>
       ELSE /\ ctx' = storeWrite(ctx, c)
            /\ task' = [task EXCEPT ![t].created = TRUE, ![t].immediate = "scheduled",
                                    ![t].canSpawn = ok,
                                    ![t].command = assembled(pieces, args, Len(args)),
                                    ![t].snapshot = getStore(ctx', c),
                                    ![t].bound = Values(ctx', getStore(ctx', c))]
            /\ last' = <<"SH", t, c, "none">>
  /\ UNCHANGED <<retrying, backoff>>

\* SH`e ` called in context c.
SHIn(c, t, ok) == SHOf(c, t, ok, <<Fragment(<<"e", " ">>)>>, <<>>)

\* SH`...` called at the top level.
SH(t, ok) == SHIn(0, t, ok)

\* A step of the client that writes the store or the process state.
StoreStep(C, op, c) ==
  /\ ctx.writes < MaxWrites
  /\ ctx' = [C EXCEPT !.writes = @ + 1]
  /\ last' = <<op, 0, c, "none">>
  /\ UNCHANGED <<task, retrying, backoff>>

\* SH.key = value in context c: the Proxy's set (sh.js 110-114).
Assign(c, key, value) ==
  /\ Active(c)
  /\ StoreStep([ctx EXCEPT !.store[c][key] = value,
                           !.ambient = IF c = 0
                                         THEN {a \in @ : a[1] # key} \cup {<<key, value>>}
                                         ELSE @],
               "assign", c)

\* SH.env.FOO = value in context c: the Proxy's get (sh.js 115-118) and a
\* write to the object it returns.
SetEnv(c, value) ==
  /\ Active(c)
  /\ StoreStep([ctx EXCEPT !.heap[getStore(ctx, c).env] = value], "setenv", c)

\* cd(dir) (sh.js 234-239), from any context.
Cd(dir) == StoreStep([ctx EXCEPT !.cwd = dir], "cd", 0)

\* What run() hands to spawn and to the log (sh.js 352-368): the entries of
\* #snapshot, the environment being the object the snapshot refers to.
spawnOptions(C, T, t) == Values(C, T[t].snapshot)

\* within(callback) called in context c (sh.js 133-136): the callback runs
\* in scope s with a shallow copy of getStore().
Within(c, s) ==
  /\ Active(c)
  /\ ctx.scope[s] = "unused"
  /\ \A u \in Scopes : u < s => ctx.scope[u] # "unused"
  /\ ctx' = [ctx EXCEPT !.scope[s] = "running", !.store[s] = getStore(ctx, c)]
  /\ last' = <<"within", c, s, "none">>
  /\ UNCHANGED <<task, retrying, backoff>>

\* The callback of scope s completes.
Leave(s) ==
  /\ ctx.scope[s] = "running"
  /\ ctx' = [ctx EXCEPT !.scope[s] = "done"]
  /\ last' = <<"leave", 0, s, "none">>
  /\ UNCHANGED <<task, retrying, backoff>>

\* A scheduled start that does not look at the halted flag.
deferredStartAlways(T, t) == run(T, t)

\* promise.isHalted || promise.run() (sh.js 105).
deferredStart(T, t) == IF T[t].halted THEN Ok(T) ELSE run(T, t)

\* The callback of sh.js 105; setImmediate callbacks run in the order set.
Immediate(t) ==
  /\ Idle
  /\ task[t].immediate = "scheduled"
  /\ \A u \in Tasks : u < t => task[u].immediate # "scheduled"
  /\ Apply(deferredStart([task EXCEPT ![t].immediate = "fired"], t), "immediate", t)

Halt(t) == task[t].created /\ Apply(Ok(halt(task, t)), "halt", t)

Nothrow(t) == task[t].created /\ Apply(Ok(nothrow(task, t)), "nothrow", t)

Quiet(t) == task[t].created /\ Apply(Ok(quiet(task, t)), "quiet", t)

Verbose(t) == task[t].created /\ Apply(Ok(verbose(task, t)), "verbose", t)

Timeout(t, d, sig) ==
  task[t].created /\ Call(Ok(timeout(task, t, d, sig)), "timeout", t, d)

RunCall(t) == task[t].created /\ Apply(run(task, t), "run", t)

\* stdio(stdin, stdout, stderr) called by the client; a slot is one of the
\* three values spawn takes.
Slots == {"inherit", "pipe", "ignore"}

Stdio(t, in, out, err) ==
  task[t].created /\ Apply(Ok(stdio(task, t, in, out, err)), "stdio", t)

ReadStdin(t) == task[t].created /\ Apply(getStdin(task, t), "stdin", t)

ReadStdout(t) == task[t].created /\ Apply(getStdout(task, t), "stdout", t)

ReadStderr(t) == task[t].created /\ Apply(getStderr(task, t), "stderr", t)

\* pipe(dest) called by the client with another Task, or with a string (0);
\* no client pipes a Task into itself.
Pipe(t, dest) ==
  /\ task[t].created
  /\ dest # t
  /\ dest \in Tasks => task[dest].created
  /\ Call(pipe(task, t, dest), "pipe", t, dest)

\* then / catch / finally called by the client: catch and finally call
\* this.then (Promise.prototype).
Await(t, kind) ==
  /\ task[t].created
  /\ task[t].waiters < MaxAwait
  /\ Apply(then(task, t), kind, t)

\* The 'error' event of a child that could not be spawned.
ErrorEvent(t) ==
  /\ task[t].child = "failed"
  /\ Apply(Ok(onError([task EXCEPT ![t].child = "errored",
                                   ![t].status = [code |-> SpawnErrno, signal |-> NULL],
                                   ![t].events = Append(@, <<"error">>)], t)),
           "error", t)

\* The process ends by itself with an exit code.
ProcExit(t, code) ==
  /\ Idle
  /\ task[t].child = "running"
  /\ Apply(Ok(exit(task, t, code, NULL, "none")), "exit", t)

\* The process is ended by a signal that no kill() of this program sent.
ExternalSignal(t, sig) ==
  /\ Idle
  /\ task[t].child = "running"
  /\ Apply(Ok(exit(task, t, NULL, sig, "none")), "exit", t)

\* The 'close' event: the process has ended and its streams are closed.
CloseEvent(t) ==
  /\ Idle
  /\ task[t].child \in {"exited", "errored"}
  /\ LET st == task[t].status
     IN Apply(Ok(onClose([task EXCEPT ![t].child = "closed",
                                      ![t].events = Append(@, <<"close", st.code, st.signal>>)],
                         t, st.code, st.signal)),
              "close", t)

\* The process writes its next chunk to stdout: the stream hands it to its
\* consumers, or holds it while it has none.
StdoutData(t) ==
  /\ Idle
  /\ task[t].child = "running"
  /\ task[t].spawnStdio[2] = "pipe"
  /\ task[t].nOut < MaxChunks
  /\ LET data == [src |-> t, data |-> <<"out", task[t].nOut + 1>>]
         T0 == [task EXCEPT ![t].nOut = @ + 1, ![t].arrived = Append(@, data)]
         T1 == IF T0[t].listening
                 THEN onStdout([T0 EXCEPT ![t].events = Append(@, data.data)], t, data)
                 ELSE T0
         T2 == [u \in Tasks |->
                  IF u \in T1[t].dests
                    THEN [T1[u] EXCEPT !.stdinRecv = Append(@, data)]
                    ELSE T1[u]]
     IN Apply(Ok(IF ~T0[t].listening /\ T0[t].dests = {}
                   THEN [T0 EXCEPT ![t].held = Append(@, data)]
                   ELSE T2), "stdoutData", t)

\* The process writes its next chunk to stderr.
StderrData(t) ==
  /\ Idle
  /\ task[t].child = "running"
  /\ task[t].spawnStdio[3] = "pipe"
  /\ task[t].nErr < MaxChunks
  /\ LET data == [src |-> t, data |-> <<"err", task[t].nErr + 1>>]
     IN Apply(Ok(onStderr([task EXCEPT ![t].nErr = @ + 1,
                                       ![t].arrived = Append(@, data),
                                       ![t].events = Append(@, data.data)], t, data)),
              "stderrData", t)

\* The duration given to timeout() has passed since the start; an armed
\* timer runs its callback, kill(this._timeoutSignal) (sh.js 413).
Deadline(t) ==
  /\ Idle
  /\ hasChild(task, t)
  /\ task[t].timer = "armed" \/ task[t].timeout # 0
  /\ ~task[t].elapsed
  /\ LET T == [task EXCEPT ![t].elapsed = TRUE]
     IN Apply(IF T[t].timer = "armed" THEN onTimeout(T, t) ELSE Ok(T), "deadline", t)

\* kill(signal) called by the client.
KillCall(t, sig) ==
  /\ task[t].created
  /\ Cardinality({i \in 1..Len(task[t].asked) : task[t].asked[i].by = "user"}) < MaxKills
  /\ Apply(kill(task, t, sig, "user"), "kill", t)

\* The process-tree lookup of one waiting kill() answers n descendants.
Lookup(t, i, n, gone) ==
  /\ Idle
  /\ i \in 1..Len(task[t].kills)
  /\ LET children == [c \in 1..n |-> ChildPid(c)]
     IN /\ gone \subseteq {ChildPid(c) : c \in 1..n}
        /\ Call(Ok(killResume(task, t, i, children, gone)), "killed", t, n)

\* ---------------------------------------------------------------- Spec
\* Starting: the client creates Tasks, pipes and starts them, gives the
\* first a timeout and reads their streams, while the event loop runs the scheduled starts and reports
\* how the processes end.
Next ==
  \/ \E t \in Tasks : SH(t, TRUE)
  \/ \E t \in Tasks : Immediate(t)
  \/ \E t \in Solo : Timeout(t, 50, "SIGTERM")
  \/ \E t \in Tasks : RunCall(t)
  \/ \E t \in Tasks : ReadStdin(t)
  \/ \E t \in Tasks : ReadStdout(t)
  \/ \E t \in Tasks : ReadStderr(t)
  \/ \E t \in Tasks, dest \in Tasks : Pipe(t, dest)
  \/ \E t \in Tasks : ProcExit(t, "0")
  \/ \E t \in Tasks : CloseEvent(t)

Spec == Init /\ [][Next]_vars

\* Awaiting: one Task is created, halted, started and awaited, and ends.
NextAwait ==
  \/ \E t \in Solo, ok \in BOOLEAN : SH(t, ok)
  \/ \E t \in Solo : Immediate(t)
  \/ \E t \in Solo : Halt(t)
  \/ \E t \in Solo : Nothrow(t)
  \/ \E t \in Solo : RunCall(t)
  \/ \E t \in Solo, kind \in {"then", "catch", "finally"} : Await(t, kind)
  \/ \E t \in Solo : ErrorEvent(t)
  \/ \E t \in Solo, code \in ExitCodes : ProcExit(t, code)
  \/ \E t \in Solo : CloseEvent(t)

SpecAwait == Init /\ [][NextAwait]_vars

\* Settling: two Tasks run, their processes write output and end, by
\* themselves, by a signal or without having been created.
NextSettle ==
  \/ \E t \in Tasks, ok \in BOOLEAN : SH(t, ok)
  \/ \E t \in Tasks : Immediate(t)
  \/ \E t \in Tasks : Nothrow(t)
  \/ \E t \in Tasks : StdoutData(t)
  \/ \E t \in Tasks : StderrData(t)
  \/ \E t \in Tasks : ErrorEvent(t)
  \/ \E t \in Tasks, code \in ExitCodes : ProcExit(t, code)
  \/ \E t \in Tasks, sig \in Signals : ExternalSignal(t, sig)
  \/ \E t \in Tasks : CloseEvent(t)

SpecSettle == Init /\ [][NextSettle]_vars

\* Killing: one Task with a timeout is started, killed by the client or by
\* its timer, and ends.
NextKill ==
  \/ \E t \in Solo, ok \in BOOLEAN : SH(t, ok)
  \/ \E t \in Solo : Immediate(t)
  \/ \E t \in Solo : Nothrow(t)
  \/ \E t \in Solo, sig \in Signals : Timeout(t, 50, sig)
  \/ \E t \in Solo, sig \in Signals : KillCall(t, sig)
  \/ \E t \in Solo, i \in 1..(MaxKills + 1), n \in 0..MaxChildren,
        gone \in SUBSET {ChildPid(c) : c \in 1..MaxChildren} : Lookup(t, i, n, gone)
  \/ \E t \in Solo : Deadline(t)
  \/ \E t \in Solo : ErrorEvent(t)
  \/ \E t \in Solo : ProcExit(t, "0")
  \/ \E t \in Solo : CloseEvent(t)

SpecKill == Init /\ [][NextKill]_vars

\* Timing out: one Task is given a timeout and started, and its process,
\* which has no descendants, ends by itself, by a kill of the client or by
\* the kill of its timer.
NextTimer ==
  \/ \E t \in Solo, ok \in BOOLEAN : SH(t, ok)
  \/ \E t \in Solo : Immediate(t)
  \/ \E t \in Solo, d \in Durations, sig \in Signals : Timeout(t, d, sig)
  \/ \E t \in Solo, sig \in Signals : KillCall(t, sig)
  \/ \E t \in Solo, i \in 1..(MaxKills + 1) : Lookup(t, i, 0, {})
  \/ \E t \in Solo : Deadline(t)
  \/ \E t \in Solo : ErrorEvent(t)
  \/ \E t \in Solo : ProcExit(t, "0")
  \/ \E t \in Solo : CloseEvent(t)

\* The event loop delivers what is pending: the lookup answers, time passes,
\* and the events of a process that has ended are reported.
SpecTimer ==
  /\ Init /\ [][NextTimer]_vars
  /\ \A t \in Solo :
       /\ WF_vars(ErrorEvent(t))
       /\ WF_vars(CloseEvent(t))
       /\ WF_vars(Deadline(t))
       /\ WF_vars(\E i \in 1..(MaxKills + 1) : Lookup(t, i, 0, {}))

\* Piping: two Tasks are created, piped and started, and the source writes
\* to its stdout.
NextPipe ==
  \/ \E t \in Tasks : SH(t, TRUE)
  \/ \E t \in Tasks : Immediate(t)
  \/ \E t \in Tasks : RunCall(t)
  \/ \E t \in Tasks, dest \in Tasks : Pipe(t, dest)
  \/ \E t \in Tasks : StdoutData(t)
  \/ \E t \in Tasks : ProcExit(t, "0")
  \/ \E t \in Tasks : CloseEvent(t)

SpecPipe == Init /\ [][NextPipe]_vars

\* Halting and forcing: two Tasks are created, halted, piped, awaited and
\* started by the scheduler or by the client.
NextStart ==
  \/ \E t \in Tasks : SH(t, TRUE)
  \/ \E t \in Tasks : Immediate(t)
  \/ \E t \in Tasks : Halt(t)
  \/ \E t \in Tasks : RunCall(t)
  \/ \E t \in Tasks : ReadStdin(t)
  \/ \E t \in Tasks : ReadStdout(t)
  \/ \E t \in Tasks : ReadStderr(t)
  \/ \E t \in Tasks, dest \in Tasks : Pipe(t, dest)
  \/ \E t \in Tasks : Await(t, "then")

SpecStart == Init /\ [][NextStart]_vars

\* Buffering: two Tasks are created, piped and started, and their processes
\* write to stdout and stderr in any interleaving.
NextBuffers ==
  \/ \E t \in Tasks : SH(t, TRUE)
  \/ \E t \in Tasks : Immediate(t)
  \/ \E t \in Tasks, dest \in Tasks : Pipe(t, dest)
  \/ \E t \in Tasks : StdoutData(t)
  \/ \E t \in Tasks : StderrData(t)
  \/ \E t \in Tasks : ProcExit(t, "0")
  \/ \E t \in Tasks : CloseEvent(t)

SpecBuffers == Init /\ [][NextBuffers]_vars

\* Stream accessors: a Task is created, configured with every stdio, started
\* by the scheduler or by a read of one of its streams, and closed.
NextStreams ==
  \/ \E t \in Solo : SH(t, TRUE)
  \/ \E t \in Solo : Immediate(t)
  \/ \E t \in Solo, in \in Slots, out \in Slots, err \in Slots : Stdio(t, in, out, err)
  \/ \E t \in Solo : ReadStdin(t)
  \/ \E t \in Solo : ReadStdout(t)
  \/ \E t \in Solo : ReadStderr(t)
  \/ \E t \in Solo : ProcExit(t, "0")
  \/ \E t \in Solo : CloseEvent(t)

SpecStreams == Init /\ [][NextStreams]_vars

\* Misuse of pipe(): two Tasks are created, started and settled, and piped
\* into each other or into a string at any moment.
NextMisuse ==
  \/ \E t \in Tasks : SH(t, TRUE)
  \/ \E t \in Tasks : Immediate(t)
  \/ \E t \in Tasks : Halt(t)
  \/ \E t \in Tasks, dest \in Tasks \cup {0} : Pipe(t, dest)
  \/ \E t \in Tasks : ProcExit(t, "0")
  \/ \E t \in Tasks : CloseEvent(t)

SpecMisuse == Init /\ [][NextMisuse]_vars

\* Verbosity: SH.verbose is assigned, a Task is created, quiet() and
\* verbose() are called on it in any order, and it runs and writes output.
NextQuiet ==
  \/ \E v \in BOOLEAN : Assign(0, "verbose", v)
  \/ \E t \in Solo : SH(t, TRUE)
  \/ \E t \in Solo : Quiet(t)
  \/ \E t \in Solo : Verbose(t)
  \/ \E t \in Solo : Immediate(t)
  \/ \E t \in Solo : RunCall(t)
  \/ \E t \in Solo : StdoutData(t)
  \/ \E t \in Solo : StderrData(t)
  \/ \E t \in Solo : ProcExit(t, "0")
  \/ \E t \in Solo : CloseEvent(t)

SpecQuiet == Init /\ [][NextQuiet]_vars

\* Command building: SH is called with every template, until one is well
\* formed, and the Task starts.
NextBuild ==
  \/ \E t \in Solo, tpl \in Templates : SHOf(0, t, TRUE, tpl[1], tpl[2])
  \/ \E t \in Solo : Immediate(t)
  \/ \E t \in Solo : StdoutData(t)
  \/ \E t \in Solo : ProcExit(t, "0")
  \/ \E t \in Solo : CloseEvent(t)

SpecBuild == Init /\ [][NextBuild]_vars

\* A Task created in the default context or in one of two scopes, with the
\* client writing the store before and after the creation and the start.
NextContext ==
  \/ \E c \in Contexts, s \in Scopes : Within(c, s)
  \/ \E s \in Scopes : Leave(s)
  \/ \E c \in Contexts, a \in Assignable : Assign(c, a[1], a[2])
  \/ \E c \in Contexts : SetEnv(c, "x")
  \/ \E dir \in Dirs : Cd(dir)
  \/ \E c \in Contexts, t \in Solo : SHIn(c, t, TRUE)
  \/ \E t \in Solo : Immediate(t)

SpecContext == Init /\ [][NextContext]_vars

\* ---------------------------------------------------------------- retry
Min(a, b) == IF a < b THEN a ELSE b

\* A generator that does not cap the exponential part.
expBackoffUncapped(n, maxMs, ms) == 2 ^ n + ms

\* The value expBackoff yields for its n, with ms = floor(random * randMs)
\* (sh.js 240-248).
expBackoff(n, maxMs, ms) == Min(2 ^ n, maxMs) + ms

\* Math.floor(Math.random() * randMs) for Math.random() = k / Grain (sh.js
\* 245).
jitter(k, randMs) == (k * randMs) \div Grain

\* expBackoff(max, rand) (sh.js 240-243): a new generator, with n = 1.
MakeBackoff(g, maxMs, randMs) ==
  /\ ~backoff[g].made
  /\ \A h \in Generators : h < g => backoff[h].made
  /\ backoff' = [backoff EXCEPT ![g] = [NewGenerator EXCEPT !.made = TRUE,
                                                           !.maxMs = maxMs,
                                                           !.randMs = randMs]]
  /\ last' = <<"expBackoff", 0, g, "none">>
  /\ UNCHANGED <<task, retrying, ctx>>

\* next() on generator g (sh.js 244-247), Math.random() being k / Grain.
Yield(g, k) ==
  /\ backoff[g].made
  /\ Len(backoff[g].yielded) < MaxYield
  /\ backoff' = [backoff EXCEPT
       ![g].yielded = Append(@, expBackoff(backoff[g].n, backoff[g].maxMs,
                                           jitter(k, backoff[g].randMs))),
       ![g].n = @ + 1]
  /\ last' = <<"next", 0, g, "none">>
  /\ UNCHANGED <<task, retrying, ctx>>

\* Two generators, made with a small and a large maximum and with and without
\* a random part, give their values in any interleaving.
NextBackoff ==
  \/ \E g \in Generators, maxMs \in {1, MaxMs}, randMs \in {0, RandMs} :
       MakeBackoff(g, maxMs, randMs)
  \/ \E g \in Generators, k \in 0 .. Grain - 1 : Yield(g, k)

SpecBackoff == Init /\ [][NextBackoff]_vars

\* A loop test that lets a count of zero in.
loopFromZero(R) ==
  IF R.count >= 0
    THEN [R EXCEPT !.count = @ - 1, !.attempt = @ + 1, !.pc = "calling",
                   !.running = @ + 1]
    ELSE [R EXCEPT !.count = @ - 1, !.pc = "rejected", !.result = R.lastErr]

\* while (count-- > 0) { attempt++; try { return await callback() ... and,
\* when the test fails, throw lastErr (sh.js 186-189, 210).
loop(R) ==
  IF R.count > 0
    THEN [R EXCEPT !.count = @ - 1, !.attempt = @ + 1, !.pc = "calling",
                   !.running = @ + 1]
    ELSE [R EXCEPT !.count = @ - 1, !.pc = "rejected", !.result = R.lastErr]

\* A catch block that sleeps after the last attempt as well.
caughtSleeps(R, err, ms) ==
  LET delay == IF R.delayGen THEN expBackoff(R.n, MaxMs, ms)
               ELSE IF R.delayStatic > 0 THEN R.delayStatic ELSE 0
      R1 == [R EXCEPT !.n = IF R.delayGen THEN @ + 1 ELSE @,
                      !.yielded = IF R.delayGen THEN Append(@, delay) ELSE @,
                      !.events = @ + 1,
                      !.delay = delay,
                      !.lastErr = err,
                      !.running = @ - 1,
                      !.outcomes = Append(@, err)]
  IN IF delay # 0 THEN [R1 EXCEPT !.pc = "sleeping", !.slept = Append(@, delay)]
     ELSE loop(R1)

\* The catch block of sh.js 191-208 for the value err the invocation threw;
\* ms is the random part of the generator's next value.
caught(R, err, ms) ==
  LET delay == IF R.delayGen THEN expBackoff(R.n, MaxMs, ms)
               ELSE IF R.delayStatic > 0 THEN R.delayStatic ELSE 0
      R1 == [R EXCEPT !.n = IF R.delayGen THEN @ + 1 ELSE @,
                      !.yielded = IF R.delayGen THEN Append(@, delay) ELSE @,
                      !.events = @ + 1,
                      !.delay = delay,
                      !.lastErr = err,
                      !.running = @ - 1,
                      !.outcomes = Append(@, err)]
  IN IF R1.count = 0 THEN [R1 EXCEPT !.pc = "rejected", !.result = R1.lastErr]
     ELSE IF delay # 0 THEN [R1 EXCEPT !.pc = "sleeping", !.slept = Append(@, delay)]
     ELSE loop(R1)

\* A step of retry(): the Tasks are left alone.
RetryStep(R, op, arg) ==
  /\ retrying' = R
  /\ last' = <<op, 0, arg, "none">>
  /\ UNCHANGED <<task, ctx, backoff>>

\* retry(count, a, b) up to its first await (sh.js 163-189): a is the
\* callback, a duration d or a generator.
Retry(count, a, d) ==
  /\ retrying.pc = "idle"
  /\ a = "duration" \/ d = 0
  /\ RetryStep(loop([retrying EXCEPT !.count = count, !.total = count,
                                     !.delayStatic = IF a = "duration" THEN d ELSE 0,
                                     !.delayGen = (a = "generator")]),
               "retry", count)

\* The promise of callback() is fulfilled: return await callback() (sh.js 189).
ActionReturns ==
  /\ retrying.pc = "calling"
  /\ LET v == [attempt |-> retrying.attempt, exitCode |-> "0"]
     IN RetryStep([retrying EXCEPT !.pc = "returned", !.result = v,
                                  !.running = @ - 1,
                                  !.outcomes = Append(@, v)],
                  "returns", retrying.attempt)

\* callback() throws, or its promise is rejected, with an Output of a failed
\* command (sh.js 191-208).
ActionThrows(code, ms) ==
  /\ retrying.pc = "calling"
  /\ retrying.delayGen \/ ms = 0
  /\ RetryStep(caught(retrying, [attempt |-> retrying.attempt, exitCode |-> code], ms),
               "throws", retrying.attempt)

\* The timer of sleep(delay) fires (sh.js 207, 226-229).
Wake ==
  /\ retrying.pc = "sleeping"
  /\ RetryStep(loop(retrying), "wake", retrying.attempt)

\* A call of retry() with every count, delay specification and outcome.
NextRetry ==
  \/ \E count \in -1 .. MaxCount, a \in DelaySpecs, d \in Durations : Retry(count, a, d)
  \/ ActionReturns
  \/ \E code \in Failures, ms \in 0 .. RandMs - 1 : ActionThrows(code, ms)
  \/ Wake

SpecRetry == Init /\ [][NextRetry]_vars

\* ----------------------------------------------------------- properties

\* C1: whatever start triggers reach a Task (the scheduled start, run(), the
\* stream accessors, the pre-start hook of a pipe destination), spawn is
\* called at most once for it; a run() on a Task that has a process handle
\* returns without an error and leaves every field of every Task as it was
\* (no spawn, no hook, no timer); the stdout and stderr accessors change
\* nothing either, and the stdin accessor nothing but the stdio setting.
C1_StartsAtMostOnce ==
  /\ [](\A t \in Tasks : task[t].spawns <= 1)
  /\ [][\A t \in Tasks : hasChild(task, t) /\ last'[2] = t =>
          /\ last'[1] = "run" /\ RunCall(t) => task' = task /\ last'[4] = "none"
          /\ last'[1] = "stdout" /\ ReadStdout(t) => task' = task
          /\ last'[1] = "stderr" /\ ReadStderr(t) => task' = task
          /\ last'[1] = "stdin" /\ ReadStdin(t) =>
               task' = [task EXCEPT ![t].stdio = <<"pipe", "pipe", "pipe">>]]_vars

\* run() was called on a pipe destination with a timeout after its process
\* had closed: it spawned once and its timer stays cleared.
C1_Witness ==
  \E t \in Tasks :
    /\ last = <<"run", t, 0, "none">>
    /\ task[t].child = "closed"
    /\ task[t].spawns = 1
    /\ task[t].prerun # 0
    /\ task[t].timer = "cleared"

\* The process events the handlers of Task t have observed, by kind.
Observed(t, kind) == {i \in 1..Len(task[t].events) : task[t].events[i][1] = kind}

\* The payloads of a buffer of chunks.
Text(buffer) == [i \in 1..Len(buffer) |-> buffer[i].data]

\* The close event of Task t has just been handled: the Task is settled with
\* the event's code and signal and the buffers as they are, resolved exactly
\* when the code is 0 or nothrow is set.
SettledByClose(t) ==
  LET e == task[t].events[Len(task[t].events)]
  IN /\ task[t].settled # "pending"
     /\ task[t].output = [exitCode |-> e[2], signal |-> e[3],
                          stdout |-> task[t].stdout, stderr |-> task[t].stderr,
                          combined |-> task[t].combined]
     /\ task[t].settled = "resolved" <=> (e[2] = "0" \/ task[t].nothrow)

\* Two Tasks whose handlers observed the same process events have Outputs
\* with the same exitCode, signal, stdout and stderr.
SameEventsSameOutput ==
  \A t \in Tasks, u \in Tasks :
    /\ task[t].child = "closed" /\ task[u].child = "closed"
    /\ task[t].events = task[u].events
    => /\ task[t].output.exitCode = task[u].output.exitCode
       /\ task[t].output.signal = task[u].output.signal
       /\ Text(task[t].output.stdout) = Text(task[u].output.stdout)
       /\ Text(task[t].output.stderr) = Text(task[u].output.stderr)

\* C2 as stated: whenever the close event of a started Task is handled, the
\* Task settles with that code, that signal and the buffers so far, resolved
\* iff the code is 0 or nothrow is set; equal event sequences give Outputs
\* equal in exitCode, signal, stdout and stderr.
C2_CloseSettles ==
  /\ \A t \in Tasks : last[1] = "close" /\ last[2] = t => SettledByClose(t)
  /\ SameEventsSameOutput

\* C2 amended: the same, for the close event of a Task whose process was
\* created (no error event came before the close event).
C2_CloseSettlesCreated ==
  /\ \A t \in Tasks :
       last[1] = "close" /\ last[2] = t /\ Observed(t, "error") = {} => SettledByClose(t)
  /\ SameEventsSameOutput

\* Two Tasks observed the same events, a chunk of output and a close with
\* code 1: the one with nothrow resolved, the other rejected.
C2_Witness ==
  /\ last[1] = "close"
  /\ task[1].child = "closed" /\ task[2].child = "closed"
  /\ task[1].events = task[2].events
  /\ task[1].nothrow /\ ~task[2].nothrow
  /\ task[1].settled = "resolved" /\ task[2].settled = "rejected"
  /\ task[1].output.exitCode = "1"
  /\ Len(task[1].output.stdout) = 1

\* C3: a Task whose child reported the error event (the process could not
\* be created) is rejected, with nothrow or without, and its Output has
\* exitCode null and signal null; it is never resolved.
C3_SpawnErrorRejects ==
  \A t \in Tasks :
    Observed(t, "error") # {} =>
      /\ task[t].settled = "rejected"
      /\ task[t].output.exitCode = NULL
      /\ task[t].output.signal = NULL

\* The error event of a Task with nothrow has been handled.
C3_Witness ==
  \E t \in Tasks :
    /\ last = <<"error", t, 0, "none">>
    /\ task[t].nothrow
    /\ task[t].settled = "rejected"

\* C4: a Task whose process a kill(sig) of the client or of the timer has
\* terminated settles, when its close event is handled, with exitCode null
\* and the signal that kill() was called with: resolved if nothrow is set at
\* that moment, rejected if not.
C4_KilledOutput ==
  /\ [](\A t \in Tasks :
          task[t].termBy # "none" /\ task[t].child = "closed" =>
            /\ task[t].settled # "pending"
            /\ task[t].output.exitCode = NULL
            /\ \E i \in 1..Len(task[t].asked) :
                 /\ task[t].asked[i].by = task[t].termBy
                 /\ task[t].asked[i].signal = task[t].output.signal
            /\ ~task[t].nothrow => task[t].settled = "rejected")
  /\ [][\A t \in Tasks :
          last'[1] = "close" /\ last'[2] = t /\ task[t].termBy # "none" =>
            task'[t].settled = IF task[t].nothrow THEN "resolved" ELSE "rejected"]_vars

\* A Task with nothrow was killed with SIGKILL by the client and resolved.
C4_Witness ==
  \E t \in Tasks :
    /\ last = <<"close", t, 0, "none">>
    /\ task[t].termBy = "user"
    /\ task[t].nothrow
    /\ task[t].settled = "resolved"
    /\ task[t].output.exitCode = NULL
    /\ task[t].output.signal = "SIGKILL"

\* A step that completes a kill() of Task t, the lookup having answered n
\* descendants, has sent the signal that kill() was called with to each of
\* them in turn and then to the root, whichever sends failed, and has
\* raised nothing.
KillOrder(t) ==
  last'[1] = "killed" /\ last'[2] = t =>
    LET n == last'[3]
        new == task'[t].sent
    IN /\ last'[4] = "none"
       /\ Len(new) = n + 1
       /\ \A i \in 1..n : new[i].pid = ChildPid(i)
       /\ new[n + 1].pid = RootPid
       /\ \E k \in 1..Len(task[t].kills) :
            /\ task'[t].kills = SubSeq(task[t].kills, 1, k - 1)
                                  \o SubSeq(task[t].kills, k + 1, Len(task[t].kills))
            /\ \A i \in 1..(n + 1) : new[i].signal = task[t].kills[k].signal

\* C5 as stated: kill(signal) on a started Task (one that has a process
\* handle) raises nothing, and sends the signal to every descendant the
\* lookup returns, then to the root, failed sends notwithstanding.
C5_KillNeverRaises ==
  [][\A t \in Tasks :
       /\ KillOrder(t)
       /\ last'[1] = "kill" /\ last'[2] = t /\ hasChild(task, t) => last'[4] = "none"]_vars

\* C5 amended: the same, for a started Task whose process was created (its
\* process id is defined).
C5_KillOrder ==
  [][\A t \in Tasks :
       /\ KillOrder(t)
       /\ last'[1] = "kill" /\ last'[2] = t /\ hasPid(task, t) => last'[4] = "none"]_vars

\* A kill() has completed whose send to a descendant failed and whose send
\* to the root, made after it, reached the process.
C5_Witness ==
  \E t \in Tasks :
    /\ last[1] = "killed" /\ last[2] = t /\ last[3] = MaxChildren
    /\ \E i \in 1..Len(task[t].sent) :
         /\ task[t].sent[i].pid = ChildPid(1) /\ ~task[t].sent[i].ok
         /\ \E j \in (i + 1)..Len(task[t].sent) :
              task[t].sent[j].pid = RootPid /\ task[t].sent[j].ok

\* C6: a Task with a timeout that settles, for whatever cause, before the
\* duration has passed has its timer cleared at settlement (no settled Task
\* has an armed timer); a cleared timer stays cleared, so it never fires,
\* and no kill() is called or signal sent on its behalf.
C6_TimerCleared ==
  /\ [](\A t \in Tasks :
          /\ task[t].settled # "pending" => task[t].timer # "armed"
          /\ task[t].timer = "cleared" =>
               /\ task[t].termBy # "timer"
               /\ \A i \in 1..Len(task[t].asked) : task[t].asked[i].by # "timer")
  /\ [][\A t \in Tasks :
          task[t].timer = "cleared" => task'[t].timer = "cleared"]_vars

\* The duration has passed for a Task that had settled before: its timer
\* was cleared and nothing was sent.
C6_Witness ==
  \E t \in Tasks :
    /\ last = <<"deadline", t, 0, "none">>
    /\ task[t].elapsed
    /\ task[t].settled # "pending"
    /\ task[t].timer = "cleared"
    /\ task[t].sent = <<>>

\* The Task is settled with exitCode null and the signal that ended its
\* process.
SettledBySignal(t) ==
  /\ task[t].settled # "pending"
  /\ task[t].output.exitCode = NULL
  /\ task[t].output.signal = task[t].status.signal

\* C7 as stated: when the duration has passed since the start of a Task on
\* which timeout(d, sig) was called and the Task has not settled, kill() is
\* called with the configured signal, and the Task eventually settles with
\* exitCode null and that signal.
C7_DeadlineKills ==
  /\ [][\A t \in Tasks :
          last'[1] = "deadline" /\ last'[2] = t /\ task[t].settled = "pending" =>
            task'[t].asked =
              Append(task[t].asked, [signal |-> task[t].timeoutSignal, by |-> "timer"])]_vars
  /\ \A t \in Solo :
       (last[1] = "deadline" /\ last[2] = t /\ task[t].settled = "pending")
         ~> (SettledBySignal(t) /\ task[t].output.signal = task[t].timeoutSignal)

\* C7 amended: a Task that starts after timeout(d, sig) with d > 0 was
\* called on it has its timer armed; when the duration has passed and the
\* timer is still armed (the Task has not settled), kill() is called with
\* the signal most recently configured and raises nothing; and once that
\* kill has terminated the process, the Task eventually settles with
\* exitCode null and the signal sent.
C7_ArmedDeadlineKills ==
  /\ [][\A t \in Tasks :
          /\ ~hasChild(task, t) /\ hasChild(task', t) /\ task[t].timeout # 0 =>
               task'[t].timer = "armed"
          /\ last'[1] = "deadline" /\ last'[2] = t /\ task[t].timer = "armed" =>
               /\ task[t].settled = "pending"
               /\ last'[4] = "none"
               /\ task'[t].asked =
                    Append(task[t].asked, [signal |-> task[t].timeoutSignal, by |-> "timer"])]_vars
  /\ \A t \in Solo :
       (task[t].termBy = "timer")
         ~> (/\ SettledBySignal(t)
             /\ \E i \in 1..Len(task[t].asked) :
                  /\ task[t].asked[i].by = "timer"
                  /\ task[t].asked[i].signal = task[t].output.signal)

\* The timer of a Task with timeout(d, SIGKILL) fired, its kill ended the
\* process, and the Task rejected with that signal.
C7_Witness ==
  \E t \in Tasks :
    /\ task[t].termBy = "timer"
    /\ task[t].timer = "fired"
    /\ task[t].settled = "rejected"
    /\ task[t].output.exitCode = NULL
    /\ task[t].output.signal = "SIGKILL"

\* C8: for every two Tasks on which a.pipe(b) has been called and has
\* returned, in every reachable state b has a process handle only if a has
\* one: the destination never starts before the source.
C8_DestinationStartsAfterSource ==
  \A a \in Tasks, b \in Tasks :
    b \in task[a].pipes /\ hasChild(task, b) => hasChild(task, a)

\* C9: for a.pipe(b) whose streams are connected, what b's stdin has been
\* written is exactly what a's process has emitted on stdout so far, chunk
\* by chunk and in order, whenever pipe() was called.
C9_PipedChunksArrive ==
  \A a \in Tasks, b \in Tasks :
    b \in task[a].pipes /\ b \in task[a].dests =>
      task[b].stdinRecv = [i \in 1..task[a].nOut |-> [src |-> a, data |-> <<"out", i>>]]

\* The three ways to await a Task.
Awaits == {"then", "catch", "finally"}

\* C10: then, catch or finally on a Task that is halted and has no process
\* handle throws the halted error and leaves every Task as it was (no
\* continuation registered); on any other Task it throws nothing, registers
\* the continuation while the Task is pending and hands it the outcome once
\* the Task has settled; a continuation is only ever handed the Task's own
\* resolution or rejection, and none is left waiting after settlement.
C10_AwaitHalted ==
  /\ [][\A t \in Tasks, kind \in Awaits :
          last'[1] = kind /\ last'[2] = t /\ Await(t, kind) =>
            IF task[t].halted /\ ~hasChild(task, t)
              THEN last'[4] = "halted" /\ task' = task
              ELSE /\ last'[4] = "none"
                   /\ IF task[t].settled = "pending"
                        THEN task' = [task EXCEPT ![t].waiters = @ + 1]
                        ELSE task' = [task EXCEPT ![t].delivered = @ \cup
                               {[how |-> task[t].settled, output |-> task[t].output]}]]_vars
  /\ [](\A t \in Tasks :
          /\ task[t].settled # "pending" => task[t].waiters = 0
          /\ \A d \in task[t].delivered :
               /\ task[t].settled # "pending"
               /\ d = [how |-> task[t].settled, output |-> task[t].output])

\* catch() was called on a halted Task whose scheduled start has passed
\* without starting it, and threw.
C10_Witness ==
  \E t \in Tasks :
    /\ last = <<"catch", t, 0, "halted">>
    /\ task[t].halted
    /\ task[t].immediate = "fired"
    /\ task[t].child = "none"
    /\ task[t].waiters = 0

\* The calls that start a Task whatever its halted flag: run(), the stream
\* accessors (pipe() reads the stdin of its destination when the source has
\* settled) and, through the pre-start hook, the start of a Task piped into.
Forced == {"run", "stdin", "stdout", "stderr", "pipe"}

\* A step in which Task t gets its process handle while halted is a forced
\* start or the scheduled start of another Task; the scheduled start of a
\* halted Task changes nothing but the fact that it has fired.
HaltedStaysUnstarted(t) ==
  /\ task[t].halted /\ ~hasChild(task, t) /\ hasChild(task', t) =>
       last'[1] \in Forced \/ (last'[1] = "immediate" /\ last'[2] # t)
  /\ task[t].halted /\ last'[1] = "immediate" /\ last'[2] = t =>
       task' = [task EXCEPT ![t].immediate = "fired"]

\* C11 as stated: a Task halted before its scheduled start fires is not
\* started by the scheduler and gets a process handle only by a forced
\* start; a Task that is not halted when its scheduled start fires has a
\* process handle right after that turn.
C11_ScheduledStart ==
  [][\A t \in Tasks :
       /\ HaltedStaysUnstarted(t)
       /\ ~task[t].halted /\ last'[1] = "immediate" /\ last'[2] = t =>
            hasChild(task', t)]_vars

\* C11 amended: the same, the second half for a Task whose pre-start hooks
\* do not lead back to itself (a cycle of pipes makes the start overflow
\* the call stack before any process is created).
C11_ScheduledStartAcyclic ==
  [][\A t \in Tasks :
       /\ HaltedStaysUnstarted(t)
       /\ ~task[t].halted /\ last'[1] = "immediate" /\ last'[2] = t
            /\ ~overflows(task, t, {}) =>
              hasChild(task', t) /\ last'[4] = "none"]_vars

\* The scheduled start of a halted Task has fired and left it without a
\* process, while the other Task, not halted, was started by its own.
C11_Witness ==
  \E t \in Tasks, u \in Tasks :
    /\ last = <<"immediate", t, 0, "none">>
    /\ task[t].halted /\ ~hasChild(task, t)
    /\ task[u].immediate = "fired" /\ ~task[u].halted /\ hasChild(task, u)

\* A call of run() or of a stream accessor on Task t that returns leaves t
\* with a process handle.
StartedOnReturn(t) ==
  last'[1] \in {"run", "stdin", "stdout", "stderr"} /\ last'[2] = t /\ last'[4] = "none" =>
    hasChild(task', t)

Invoked == retrying.attempt

\* C13: retry(count, delaySpec, action) invokes action at most count times
\* and one invocation at a time; once an invocation succeeds retry returns
\* that invocation's value and action is not invoked again; action is
\* invoked again only after the previous invocation has failed.
C13_RetryInvokes ==
  /\ [](/\ Invoked <= (IF retrying.total > 0 THEN retrying.total ELSE 0)
        /\ retrying.running <= 1
        /\ retrying.pc = "returned" =>
             /\ retrying.running = 0
             /\ retrying.result = retrying.outcomes[Len(retrying.outcomes)]
             /\ retrying.result.exitCode = "0"
             /\ retrying.result.attempt = Invoked)
  /\ [][/\ retrying.pc = "returned" => Invoked' = Invoked
        /\ Invoked' # Invoked =>
             /\ Invoked' = Invoked + 1
             /\ retrying.running = 0 \/ last'[1] = "throws"
             /\ Len(retrying'.outcomes) = Invoked
             /\ \A i \in 1 .. Invoked : retrying'.outcomes[i].exitCode \in Failures]_vars

\* retry(2, ...) has returned the value of its second invocation, the first
\* having failed.
C13_Witness ==
  /\ retrying.pc = "returned"
  /\ retrying.total = 2
  /\ Invoked = 2
  /\ retrying.result.attempt = 2
  /\ retrying.outcomes[1].exitCode \in Failures

\* C14: whenever retry rejects, the value it rejects with is the value the
\* last invocation of action threw, for every count: never a value that no
\* invocation produced.
C14_RetryRethrowsLast ==
  retrying.pc = "rejected" =>
    /\ Len(retrying.outcomes) > 0
    /\ retrying.result = retrying.outcomes[Len(retrying.outcomes)]

\* The step was taken by code running in context c.
StepOf(c) ==
  \/ last'[1] \in {"assign", "SH"} /\ last'[3] = c
  \/ last'[1] = "within" /\ last'[2] = c

\* C15: an assignment to a configuration key made in one context, and any
\* store write caused by creating a Task there, leaves the store seen
\* through every other scope and through the default context as it was, while
\* the scopes run and after they complete; a scope starts as a copy of the
\* context within was called in.
C15_ScopesIsolated ==
  [][\A c \in Contexts :
       StepOf(c) =>
         /\ \A d \in Contexts \ {c} :
              (last'[1] = "within" /\ last'[3] = d) \/ ctx'.store[d] = ctx.store[d]
         /\ last'[1] = "within" => ctx'.store[last'[3]] = ctx.store[c]]_vars

\* C16: the working directory, environment, shell, prefix and verbose value
\* a Task is started with are those of the context that was active when the
\* Task was created, whatever was written to the store or to the entries of
\* the environment mapping between creation and start.
C16_SnapshotUsed ==
  [][\A t \in Tasks :
       ~hasChild(task, t) /\ hasChild(task', t) =>
         spawnOptions(ctx', task', t) = task[t].bound]_vars

\* The flags and hooks pipe() sets, of source t and destination dest.
Hooks(T, t, dest) ==
  <<T[t].piped, T[t].postrun,
    IF dest \in Tasks THEN <<T[dest].prerun, T[dest].postrun>> ELSE <<>>>>

\* A pipe() that must fail has failed and has left the flags and hooks alone.
FailsClean(t, dest) ==
  /\ last'[4] # "none"
  /\ Hooks(task', t, dest) = Hooks(task, t, dest)

\* C17 as stated: pipe(dest) fails synchronously when dest is a string and
\* when the source has settled, leaving the source's piped flag and
\* post-start hook and the destination's hooks unchanged; when the source
\* has settled and dest is a Task, dest's stdin has been closed when the
\* error is raised.
C17_PipeMisuse ==
  [][\A t \in Tasks, dest \in Tasks \cup {0} :
       last'[1] = "pipe" /\ last'[2] = t /\ last'[3] = dest =>
         /\ dest = 0 => FailsClean(t, dest)
         /\ dest # 0 /\ task[t].resolved =>
              FailsClean(t, dest) /\ task'[dest].stdinEnded]_vars

\* C18: after any sequence of quiet() and verbose() calls on a Task its
\* quiet flag is set exactly when the last of them was quiet(); a log event
\* emitted when the last of them was verbose() carries the verbose value of
\* the Task's snapshot.
C18_VerboseClearsQuiet ==
  /\ [](\A t \in Tasks :
          task[t].lastCall # "none" => (task[t].quiet <=> task[t].lastCall = "quiet"))
  /\ [][\A t \in Tasks :
          Len(task'[t].logged) > Len(task[t].logged) /\ task[t].lastCall = "verbose" =>
            task'[t].logged[Len(task'[t].logged)][2] = task[t].snapshot.verbose]_vars

\* C19: building a command raises the malformed-command error exactly when
\* a literal fragment is undefined; then no Task is created and no start is
\* scheduled; with all fragments defined it does not fail, and one Task is
\* created with one scheduled start.
C19_MalformedCommand ==
  [][\A t \in Tasks, tpl \in Templates :
       last'[1] = "SH" /\ last'[2] = t /\ SHOf(0, t, TRUE, tpl[1], tpl[2]) =>
         IF \E i \in DOMAIN tpl[1] : tpl[1][i] = Undef
           THEN last'[4] = "malformed" /\ task' = task
           ELSE /\ last'[4] = "none"
                /\ task'[t].created /\ task'[t].immediate = "scheduled"
                /\ \A u \in Tasks \ {t} : task'[u] = task[u]]_vars

\* A template with an undefined fragment was refused: no Task exists and
\* no start is scheduled.
C19_Witness ==
  /\ last = <<"SH", 1, 0, "malformed">>
  /\ \A t \in Tasks : ~task[t].created /\ task[t].immediate = "none"

\* One trailing newline removed.
Chomp(x) == IF x # <<>> /\ x[Len(x)] = "\n" THEN SubSeq(x, 1, Len(x) - 1) ELSE x

\* r(v) of the claim.
Rendered(v) ==
  IF v.kind = "array" THEN join([i \in 1 .. Len(v.items) |-> quote(v.items[i])])
  ELSE IF v.kind = "output" THEN Chomp(v.stdout)
  ELSE quote(v.text)

\* f0 + r(v1) + f1 + ... + r(vn) + fn.
RECURSIVE Expected(_, _, _)
Expected(pieces, args, i) ==
  IF i = 0 THEN pieces[1].text
  ELSE Expected(pieces, args, i - 1) \o Rendered(args[i]) \o pieces[i + 1].text

\* C20: the command built from fragments f0..fn and values v1..vn is
\* f0 + r(v1) + f1 + ... + r(vn) + fn, where r of an array is its quoted
\* elements joined by spaces, r of an Output is its stdout with one trailing
\* newline removed, and r of any other value is its quoted text.
C20_CommandText ==
  [][\A t \in Tasks, tpl \in Templates :
       last'[1] = "SH" /\ last'[2] = t /\ last'[4] = "none"
         /\ SHOf(0, t, TRUE, tpl[1], tpl[2]) =>
         task'[t].command = Expected(tpl[1], tpl[2], Len(tpl[2]))]_vars

\* The n-th value of generator g lies in [min(2^n, max), min(2^n, max) + rand).
InRange(g, i) ==
  LET low == Min(2 ^ i, backoff[g].maxMs)
  IN low <= backoff[g].yielded[i] /\ backoff[g].yielded[i] < low + backoff[g].randMs

\* The sequence of generator g goes on from its n; a new generator starts at
\* n = 1.
Continues ==
  [][\A g \in Generators :
       /\ last'[1] = "next" /\ last'[3] = g =>
            /\ backoff'[g].n = backoff[g].n + 1
            /\ Len(backoff'[g].yielded) = backoff[g].n
       /\ last'[1] = "expBackoff" /\ last'[3] = g =>
            /\ backoff'[g].n = 1
            /\ \A h \in Generators \ {g} : backoff'[h] = backoff[h]]_vars

\* C21 as stated: for every n >= 1 the n-th value v of one generator
\* satisfies min(2^n, max) <= v < min(2^n, max) + rand; the sequence does
\* not restart, and a new generator starts at n = 1.
C21_BackoffRange ==
  /\ [](\A g \in Generators : \A i \in 1 .. Len(backoff[g].yielded) : InRange(g, i))
  /\ Continues

\* C21 amended: with rand > 0 the n-th value v satisfies
\* min(2^n, max) <= v < min(2^n, max) + rand; with rand = 0 the interval is
\* empty and v is min(2^n, max); the sequence does not restart, and a new
\* generator starts at n = 1.
C21_BackoffRangeOrExact ==
  /\ [](\A g \in Generators : \A i \in 1 .. Len(backoff[g].yielded) :
          IF backoff[g].randMs > 0 THEN InRange(g, i)
          ELSE backoff[g].yielded[i] = Min(2 ^ i, backoff[g].maxMs))
  /\ Continues

\* A generator with a random part has yielded a third value above its
\* capped exponential part, after a second generator was made.
C21_Witness ==
  /\ backoff[1].randMs > 0
  /\ Len(backoff[1].yielded) = 3
  /\ backoff[1].yielded[3] = backoff[1].maxMs + 1
  /\ 2 ^ 3 > backoff[1].maxMs
  /\ backoff[2].made

\* C22: a value assigned to a configuration knob outside any within scope is
\* the value in the snapshot (which run() hands to spawn) of every Task
\* created afterwards outside any scope, until the knob is assigned again.
C22_AmbientAssignment ==
  [][\A t \in Tasks :
       last' = <<"SH", t, 0, "none">> =>
         \A a \in ctx.ambient : task'[t].snapshot[a[1]] = a[2]]_vars

\* C23: a kill() on a started Task completes with the list of the process
\* ids it signaled, the descendants and then the root: two ids for a shell
\* that runs one child command.
C23_KillReturnsPids ==
  [][\A t \in Tasks :
       last'[1] = "killed" /\ last'[2] = t =>
         /\ task'[t].killValue.defined
         /\ task'[t].killValue.pids =
              [i \in 1 .. Len(task'[t].sent) |-> task'[t].sent[i].pid]
         /\ Len(task'[t].killValue.pids) = last'[3] + 1]_vars

\* The first n chunks the process of Task t wrote to one stream.
Chunks(t, stream, n) == [i \in 1 .. n |-> [src |-> t, data |-> <<stream, i>>]]

C25_SourceKeepsStderrOnly ==
  \A t \in Tasks :
    task[t].piped =>
      /\ task[t].stdout = <<>>
      /\ task[t].stderr = Chunks(t, "err", task[t].nErr)
      /\ task[t].combined = task[t].stderr

\* The attempts of the running retry() that failed so far.
Failed == Len(SelectSeq(retrying.outcomes, LAMBDA o : o.exitCode # "0"))

\* The wait retry() owes after its i-th failed attempt: the static duration,
\* the i-th value of the generator, or none.
Owed(i) ==
  IF retrying.delayGen THEN retrying.yielded[i]
  ELSE IF retrying.delayStatic > 0 THEN retrying.delayStatic ELSE 0

\* The waits owed after the failed attempts 1 .. k that were not the last
\* attempt allowed, in order; a wait of zero is no wait.
RECURSIVE Waits(_)
Waits(k) ==
  IF k = 0 THEN <<>>
  ELSE IF k < retrying.total /\ Owed(k) # 0 THEN Append(Waits(k - 1), Owed(k))
  ELSE Waits(k - 1)

\* C26: between two consecutive invocations retry() waits the static
\* duration when one was given, the generator's value when a generator was
\* given, and does not wait when neither was; each failed attempt consumes
\* exactly one generator value and emits exactly one retry log event; no
\* wait follows the last failed attempt, and the next invocation is made
\* only when the timer of the wait has fired.
C26_RetryWaits ==
  /\ [](/\ retrying.events = Failed
        /\ Len(retrying.yielded) = (IF retrying.delayGen THEN Failed ELSE 0)
        /\ retrying.slept = Waits(Failed)
        /\ retrying.pc = "sleeping" => Failed < retrying.total
        /\ \A i \in 1 .. Len(retrying.yielded) :
             /\ retrying.yielded[i] >= Min(2 ^ i, MaxMs)
             /\ retrying.yielded[i] < Min(2 ^ i, MaxMs) + RandMs)
  /\ [][(retrying'.attempt = retrying.attempt + 1 /\ retrying.attempt >= 1)
          => IF Owed(retrying.attempt) # 0
               THEN retrying.pc = "sleeping" /\ last'[1] = "wake"
                    /\ retrying.slept[Len(retrying.slept)] = Owed(retrying.attempt)
               ELSE retrying.pc = "calling" /\ last'[1] = "throws"]_vars

\* A retry with a generator failed three times: it waited after the first
\* and the second attempt, for different values, and rejected after the third.
C26_Witness ==
  /\ retrying.pc = "rejected" /\ retrying.delayGen /\ retrying.total = 3
  /\ Failed = 3 /\ Len(retrying.slept) = 2
  /\ retrying.slept[1] # retrying.slept[2]

\* The accessor a step read, as the index of its stdio slot, and the error
\* of a stream that is not there.
SlotOf(op) == IF op = "stdin" THEN 1 ELSE IF op = "stdout" THEN 2 ELSE 3
Unavailable(op) ==
  IF op = "stdin" THEN "stdinNull" ELSE IF op = "stdout" THEN "stdoutNull" ELSE "stderrNull"

\* The configuration of a stdio slot of Task t: what the process was spawned
\* with, or what it will be spawned with.
Configured(t, i) ==
  IF hasChild(task, t) THEN task[t].spawnStdio[i] ELSE task[t].stdio[i]

\* C27: a read of the stdin, stdout or stderr accessor starts the Task if it
\* has no process handle and returns the stream when that slot is configured
\* as pipe; it fails with the stream-unavailable error when the slot is
\* configured as inherit or ignore; and it leaves the configuration of the
\* other two slots as it was.
C27_StreamAccessors ==
  [][last'[1] \in {"stdin", "stdout", "stderr"} =>
       LET t == last'[2]
           i == SlotOf(last'[1])
       IN /\ IF Configured(t, i) = "pipe"
               THEN last'[4] = "none" /\ hasChild(task', t)
               ELSE last'[4] = Unavailable(last'[1])
          /\ \A j \in (1 .. 3) \ {i} : task'[t].stdio[j] = task[t].stdio[j]]_vars

\* C28: the lifecycle of a Task only advances: it settles only when it has a
\* process handle; once it has settled, its outcome and its Output stay what
\* they are whatever error event, close event, kill or timer comes later;
\* and the flag #resolved that pipe() reads is never reset.
C28_LifecycleAdvances ==
  [][\A t \in Tasks :
       /\ (task[t].settled = "pending" /\ task'[t].settled # "pending")
            => hasChild(task, t) /\ hasChild(task', t)
       /\ task[t].settled # "pending"
            => task'[t].settled = task[t].settled /\ task'[t].output = task[t].output
       /\ task[t].resolved => task'[t].resolved
       /\ hasChild(task, t) => hasChild(task', t)]_vars

\* A Task whose spawn failed was rejected by the error event, and the close
\* event and a kill() came after that: it still holds the Output of the
\* error event.
C28_Witness ==
  /\ task[1].child = "closed" /\ task[1].settled = "rejected"
  /\ task[1].resolved
  /\ task[1].output.exitCode = NULL
  /\ \E i \in 1 .. Len(task[1].events) : task[1].events[i] = <<"error">>
  /\ last[1] = "kill"

====
